---- MODULE Spec2Model ----
(***************************************************************************)
(* Model of src/src/recorder/recorder.cpp: a PortAudio capture callback    *)
(* filling a bounded sample buffer, the orchestration thread (main) that   *)
(* opens, starts, stops and closes the stream, and the libsndfile export.  *)
(*                                                                         *)
(* Two threads: main (variable pc) and the transport's callback thread     *)
(* (variable cb).  The only memory both touch while the stream is active   *)
(* is data.recording.  The write of line 110 races with the read of line   *)
(* 55; both writers store false, a bool cannot tear, so the outcomes of    *)
(* the race are "the read returns the value before the write" and "the     *)
(* read returns the value after it".  Both are produced by interleaving    *)
(* the step StopWrite with the steps of the callback.                      *)
(***************************************************************************)
EXTENDS Integers, Sequences, FiniteSets, TLC

\* ---- program constants (recorder.cpp:10-13) ----
SAMPLE_RATE == 44100
FRAMES_PER_BUFFER == 512
NUM_SECONDS == 5
NUM_CHANNELS == 1

\* ---- bounds of the small configuration ----
MaxTotalFrames == 2       \* totalFrames ranges over 1..MaxTotalFrames
MaxFramesPerBuffer == 2   \* framesPerBuffer of one invocation, 1..MaxFramesPerBuffer
MaxSample == 1            \* input sample values 0..MaxSample
MaxFairFrames == 2        \* totalFrames of the runs checked for termination
MaxGrowth == 3            \* without a limit, no invocation starts at this length

\* ---- values of the libraries' enumerations ----
paContinue == "paContinue"
paComplete == "paComplete"
paNoError == "paNoError"
paError == "paError"
PaErrors == {paNoError, paError}

VARIABLES
    pc,              \* main: the statement main executes next
    err,             \* main: PaError err (line 73)
    stage,           \* main: the stage argument of the pending handlePaError call
    exitCode,        \* process exit status, "running" until the process exits
    totalFrames,     \* main: int totalFrames (line 75)
    recordedSamples, \* data.recordedSamples
    capacity,        \* data.recordedSamples.capacity()
    recording,       \* data.recording
    maxSamples,      \* data.maxSamples
    paState,         \* PortAudio library: "uninit", "init", "terminated"
    stream,          \* PaStream: "null", "open", "active", "complete", "stopped", "closed"
    cb,              \* callback thread: position and locals of recordCallback
    file,            \* SNDFILE: "none", "open", "closed"; what was written
    log,             \* library calls made and diagnostics printed, in order
    hist             \* observations of the callback used by the properties

vars == <<pc, err, stage, exitCode, totalFrames, recordedSamples, capacity,
          recording, maxSamples, paState, stream, cb, file, log, hist>>

mainVars == <<pc, err, stage, exitCode>>
dataVars == <<recordedSamples, capacity, recording, maxSamples>>

Min(a, b) == IF a < b THEN a ELSE b

Samples == 0..MaxSample

\* ---- std::vector<float> ----
\* The contents of a vector are kept run-length encoded: a sequence of runs
\* [value, count], count >= 1, neighbouring runs of different values.  The
\* encoding is canonical, so two vectors are equal exactly when their
\* encodings are; Elements gives the plain sequence of samples.
RECURSIVE Size(_)
Size(v) == IF v = <<>> THEN 0 ELSE v[1].count + Size(Tail(v))

RECURSIVE Elements(_)
Elements(v) ==
    IF v = <<>> THEN <<>>
    ELSE [k \in 1..v[1].count |-> v[1].value] \o Elements(Tail(v))

\* push_back(x)
PushBack(v, x) ==
    IF v # <<>> /\ v[Len(v)].value = x
    THEN [v EXCEPT ![Len(v)].count = @ + 1]
    ELSE Append(v, [value |-> x, count |-> 1])

\* the vector holding the elements of v followed by those of w
Concat(v, w) ==
    IF v = <<>> THEN w
    ELSE IF w = <<>> THEN v
    ELSE IF v[Len(v)].value = w[1].value
    THEN SubSeq(v, 1, Len(v) - 1)
           \o <<[value |-> w[1].value, count |-> v[Len(v)].count + w[1].count]>>
           \o Tail(w)
    ELSE v \o w

\* n copies of x
Fill(x, n) == IF n = 0 THEN <<>> ELSE <<[value |-> x, count |-> n]>>

\* An input buffer handed to the callback: NULL, or framesPerBuffer samples.
NullBuffer == [null |-> TRUE, samples |-> <<>>]
InputBuffers(n) == {NullBuffer} \cup
                   {[null |-> FALSE, samples |-> s] : s \in [1..n -> Samples]}

IdleCb == [pc |-> "idle", inputBuffer |-> NullBuffer, framesPerBuffer |-> 0,
           framesToRecord |-> 0, i |-> 0]

InitHist == [invocations |-> 0, result |-> "none", appended |-> 0,
             entryLen |-> 0, entryRecording |-> TRUE, entrySamples |-> <<>>,
             exitRecording |-> TRUE,
             stopWritten |-> FALSE, callsAfterStop |-> 0, samplesAfterStop |-> 0,
             cbCleared |-> FALSE, minFrames |-> 0]

InitFile == [state |-> "none", frames |-> 0, requested |-> <<>>,
             frames_written |-> 0]

\* Variants of the bound check with one slip each.
\* The limit is detected but the count is not cut down to the headroom.
BoundCheckNoTruncate(size, framesPerBuffer, max, rec) ==
    IF size + framesPerBuffer > max /\ max > 0
    THEN [framesToRecord |-> framesPerBuffer, recording |-> FALSE]
    ELSE [framesToRecord |-> framesPerBuffer, recording |-> rec]

\* The count is cut down but the flag is not cleared.
BoundCheckKeepsFlag(size, framesPerBuffer, max, rec) ==
    IF size + framesPerBuffer > max /\ max > 0
    THEN [framesToRecord |-> max - size, recording |-> rec]
    ELSE [framesToRecord |-> framesPerBuffer, recording |-> rec]

\* The test compares framesPerBuffer alone with the limit.
BoundCheckIgnoresSize(size, framesPerBuffer, max, rec) ==
    IF framesPerBuffer > max /\ max > 0
    THEN [framesToRecord |-> max - size, recording |-> FALSE]
    ELSE [framesToRecord |-> framesPerBuffer, recording |-> rec]

\* The headroom is computed one short.
BoundCheckOneShort(size, framesPerBuffer, max, rec) ==
    IF size + framesPerBuffer > max /\ max > 0
    THEN [framesToRecord |-> IF max > size THEN max - size - 1 ELSE 0,
          recording |-> FALSE]
    ELSE [framesToRecord |-> framesPerBuffer, recording |-> rec]

\* The flag is assigned the outcome of the test instead of being cleared.
BoundCheckAssignsFlag(size, framesPerBuffer, max, rec) ==
    IF size + framesPerBuffer > max /\ max > 0
    THEN [framesToRecord |-> max - size, recording |-> FALSE]
    ELSE [framesToRecord |-> framesPerBuffer, recording |-> TRUE]

\* The test lacks the "maxSamples > 0" conjunct.
BoundCheckNoZeroGuard(size, framesPerBuffer, max, rec) ==
    IF size + framesPerBuffer > max
    THEN [framesToRecord |-> IF max > size THEN max - size ELSE 0,
          recording |-> FALSE]
    ELSE [framesToRecord |-> framesPerBuffer, recording |-> rec]

\* ---- recordCallback, lines 31-39: the bound check ----
BoundCheck(size, framesPerBuffer, max, rec) ==
    IF size + framesPerBuffer > max /\ max > 0
    THEN [framesToRecord |-> max - size, recording |-> FALSE]
    ELSE [framesToRecord |-> framesPerBuffer, recording |-> rec]

\* Variant: the read pointer is not advanced.
NextSampleNoAdvance(inputBuffer, k) ==
    IF inputBuffer.null THEN 0 ELSE inputBuffer.samples[1]

\* ---- recordCallback, lines 42-52: the k-th sample pushed (k = i + 1) ----
NextSample(inputBuffer, k) ==
    IF inputBuffer.null THEN 0 ELSE inputBuffer.samples[k]

\* Variant: a NULL input is dropped instead of being replaced by silence.
LoopContinuesSkipsNull(inputBuffer, i, framesToRecord) ==
    IF inputBuffer.null THEN FALSE ELSE i < framesToRecord

\* ---- recordCallback, lines 44 and 48: the condition of the loop that runs,
\* the zero-filling one for a NULL input, the copying one otherwise ----
LoopContinues(inputBuffer, i, framesToRecord) ==
    IF inputBuffer.null THEN i < framesToRecord ELSE i < framesToRecord

\* ---- std::vector::push_back: capacity grows when the vector is full ----
GrownCapacity(size, cap) ==
    IF size < cap THEN cap ELSE IF cap = 0 THEN 1 ELSE 2 * cap

\* Variants of the value returned: the sense of the flag inverted, and the
\* flag not consulted.
CallbackResultInverted(rec) == IF rec THEN paComplete ELSE paContinue
CallbackResultAlwaysContinue(rec) == paContinue

\* ---- recordCallback, line 55 ----
CallbackResult(rec) == IF rec THEN paContinue ELSE paComplete

\* ---- recordCallback, lines 42-52 as a whole: the loop starts at i = 0 and
\* runs until its condition first fails; the samples it pushes ----
Iterations(inputBuffer, framesToRecord) ==
    LET stops == {i \in 0..framesToRecord :
                     ~LoopContinues(inputBuffer, i, framesToRecord)}
    IN CHOOSE i \in stops : \A j \in stops : i <= j

RECURSIVE PushedRange(_, _, _)
PushedRange(inputBuffer, lo, hi) ==
    IF lo > hi THEN <<>>
    ELSE IF lo = hi THEN PushBack(<<>>, NextSample(inputBuffer, lo))
    ELSE LET mid == (lo + hi) \div 2
         IN Concat(PushedRange(inputBuffer, lo, mid),
                   PushedRange(inputBuffer, mid + 1, hi))

Pushed(inputBuffer, framesToRecord) ==
    PushedRange(inputBuffer, 1, Iterations(inputBuffer, framesToRecord))

\* ---- recordCallback, lines 29-55, run without interruption on the state
\* (samples, rec, max): the vector, the flag and the value it returns ----
RecordCallback(samples, rec, max, inputBuffer, framesPerBuffer) ==
    LET bc == BoundCheck(Size(samples), framesPerBuffer, max, rec)
        pushed == Pushed(inputBuffer, bc.framesToRecord)
    IN [recordedSamples |-> Concat(samples, pushed),
        recording |-> bc.recording,
        framesToRecord |-> bc.framesToRecord,
        appended |-> Size(pushed),
        result |-> CallbackResult(bc.recording)]

InitBody(frames) ==
    /\ pc = "setup"
    /\ err = paNoError
    /\ stage = "none"
    /\ exitCode = "running"
    /\ totalFrames \in frames
    /\ recordedSamples = <<>>
    /\ capacity = 0
    /\ recording = TRUE
    /\ maxSamples = 0
    /\ paState = "uninit"
    /\ stream = "null"
    /\ cb = IdleCb
    /\ file = InitFile
    /\ log = <<>>
    /\ hist = InitHist

\* main's constants scaled down: totalFrames = NUM_SECONDS * SAMPLE_RATE (line 75)
\* ranges over 1..MaxTotalFrames.
Init == InitBody(1..MaxTotalFrames)

\* Variant of main's setup without the reserve() of line 77.
SetupNoReserve ==
    /\ pc = "setup"
    /\ maxSamples' = totalFrames * NUM_CHANNELS
    /\ pc' = "Pa_Initialize"
    /\ UNCHANGED <<err, stage, exitCode, totalFrames, recordedSamples, capacity,
                   recording, paState, stream, cb, file, log, hist>>

\* main, lines 75-77
Setup ==
    /\ pc = "setup"
    /\ maxSamples' = totalFrames * NUM_CHANNELS
    /\ capacity' = totalFrames * NUM_CHANNELS
    /\ pc' = "Pa_Initialize"
    /\ UNCHANGED <<err, stage, exitCode, totalFrames, recordedSamples, recording,
                   paState, stream, cb, file, log, hist>>

\* The call of a PortAudio function whose result main passes to handlePaError:
\* the call is logged, err and stage are set, control goes to handlePaError.
PaCall(label, call, stageName, e) ==
    /\ pc = label
    /\ err' = e
    /\ stage' = stageName
    /\ log' = Append(log, <<call, e>>)
    /\ pc' = "handlePaError"
    /\ UNCHANGED exitCode

\* main, line 79
PaInitialize ==
    \E e \in PaErrors :
        /\ PaCall("Pa_Initialize", "Pa_Initialize", "Initialization", e)
        /\ paState' = IF e = paNoError THEN "init" ELSE paState
        /\ UNCHANGED <<totalFrames, dataVars, stream, cb, file, hist>>

\* Pa_Terminate closes every stream that is still open.
TerminatedStream(s) == IF s = "null" THEN "null" ELSE "closed"
TerminatedPa(p) == IF p = "init" THEN "terminated" ELSE p

\* Where main continues when handlePaError returns.
AfterStage(s) ==
    CASE s = "Initialization" -> "Pa_GetDefaultInputDevice"
      [] s = "Stream Opening" -> "Pa_StartStream"
      [] s = "Stream Starting" -> "sleep"
      [] s = "Stream Stopping" -> "Pa_CloseStream"
      [] s = "Stream Closing" -> "Pa_Terminate"

\* Variant of handlePaError without the exit(1): it reports, terminates the
\* library and returns to main.
HandlePaErrorReturns ==
    /\ pc = "handlePaError"
    /\ IF err # paNoError
       THEN /\ cb.pc = "idle"
            /\ log' = log \o << <<"stderr", stage>>, <<"Pa_Terminate", paNoError>> >>
            /\ paState' = TerminatedPa(paState)
            /\ stream' = TerminatedStream(stream)
       ELSE UNCHANGED <<log, paState, stream>>
    /\ pc' = AfterStage(stage)
    /\ UNCHANGED <<err, stage, exitCode, totalFrames, dataVars, cb, file, hist>>

\* Variant of handlePaError without the Pa_Terminate call.
HandlePaErrorNoTerminate ==
    /\ pc = "handlePaError"
    /\ IF err # paNoError
       THEN /\ log' = Append(log, <<"stderr", stage>>)
            /\ exitCode' = 1
            /\ pc' = "exit"
       ELSE /\ pc' = AfterStage(stage)
            /\ UNCHANGED <<log, exitCode>>
    /\ UNCHANGED <<err, stage, totalFrames, dataVars, paState, stream, cb, file, hist>>

\* handlePaError, lines 59-67, with the return to main's next statement.
\* Pa_Terminate tears an active stream down and so waits for a running callback.
HandlePaError ==
    /\ pc = "handlePaError"
    /\ IF err # paNoError
       THEN /\ cb.pc = "idle"
            /\ log' = log \o << <<"stderr", stage>>, <<"Pa_Terminate", paNoError>> >>
            /\ paState' = TerminatedPa(paState)
            /\ stream' = TerminatedStream(stream)
            /\ exitCode' = 1
            /\ pc' = "exit"
       ELSE /\ pc' = AfterStage(stage)
            /\ UNCHANGED <<log, paState, stream, exitCode>>
    /\ UNCHANGED <<err, stage, totalFrames, dataVars, cb, file, hist>>

\* main, lines 82-91
GetDefaultInputDevice ==
    /\ pc = "Pa_GetDefaultInputDevice"
    /\ \E device \in {"paNoDevice", "device0"} :
        IF device = "paNoDevice"
        THEN /\ log' = log \o << <<"Pa_GetDefaultInputDevice", device>>,
                                 <<"stderr", "No default input device">>,
                                 <<"Pa_Terminate", paNoError>> >>
             /\ paState' = TerminatedPa(paState)
             /\ stream' = TerminatedStream(stream)
             /\ exitCode' = 1
             /\ pc' = "exit"
        ELSE /\ log' = Append(log, <<"Pa_GetDefaultInputDevice", device>>)
             /\ pc' = "Pa_OpenStream"
             /\ UNCHANGED <<paState, stream, exitCode>>
    /\ UNCHANGED <<err, stage, totalFrames, dataVars, cb, file, hist>>

\* main, lines 93-101
OpenStream ==
    \E e \in PaErrors :
        /\ PaCall("Pa_OpenStream", "Pa_OpenStream", "Stream Opening", e)
        /\ stream' = IF e = paNoError THEN "open" ELSE stream
        /\ UNCHANGED <<totalFrames, dataVars, paState, cb, file, hist>>

\* main, lines 104-105
StartStream ==
    \E e \in PaErrors :
        /\ PaCall("Pa_StartStream", "Pa_StartStream", "Stream Starting", e)
        /\ stream' = IF e = paNoError THEN "active" ELSE stream
        /\ UNCHANGED <<totalFrames, dataVars, paState, cb, file, hist>>

\* main, lines 109-114: after the sleep, the unsynchronized write of the flag
StopWrite ==
    /\ pc = "sleep"
    /\ recording' = FALSE
    /\ hist' = [hist EXCEPT !.stopWritten = TRUE]
    /\ pc' = "Pa_StopStream"
    /\ UNCHANGED <<err, stage, exitCode, totalFrames, recordedSamples, capacity,
                   maxSamples, paState, stream, cb, file, log>>

\* main, line 116.  Pa_StopStream returns only when no callback is running.
\* A failing stop may or may not have stopped the stream.
StopStream ==
    /\ cb.pc = "idle"
    /\ \E e \in PaErrors :
        /\ PaCall("Pa_StopStream", "Pa_StopStream", "Stream Stopping", e)
        /\ IF e = paNoError
           THEN stream' = "stopped"
           ELSE stream' \in {stream, "stopped"}
        /\ UNCHANGED <<totalFrames, dataVars, paState, cb, file, hist>>

\* main, line 119
CloseStream ==
    \E e \in PaErrors :
        /\ PaCall("Pa_CloseStream", "Pa_CloseStream", "Stream Closing", e)
        /\ stream' = IF e = paNoError THEN "closed" ELSE stream
        /\ UNCHANGED <<totalFrames, dataVars, paState, cb, file, hist>>

\* main, lines 122-123
Terminate ==
    /\ pc = "Pa_Terminate"
    /\ log' = Append(log, <<"Pa_Terminate", paNoError>>)
    /\ paState' = TerminatedPa(paState)
    /\ stream' = TerminatedStream(stream)
    /\ pc' = "sf_open"
    /\ UNCHANGED <<err, stage, exitCode, totalFrames, dataVars, cb, file, hist>>

----
\* The export, main lines 126-157.

\* line 129
FrameCount(size) == size \div NUM_CHANNELS

\* Variants: an empty write is taken for a short one; no write is.
ShortWriteOrEmpty(frames_written, size) == frames_written # size \/ size = 0
ShortWriteNever(frames_written, size) == FALSE

\* line 142: is the write reported as short?
ShortWrite(frames_written, size) == frames_written # size

\* Variant: the failed close is reported but main still returns 0.
CloseExitCodeZero(rc) == 0

\* lines 151-157: the exit status after sf_close returned rc
CloseExitCode(rc) == IF rc # 0 THEN 1 ELSE 0

\* lines 134-137: the exit status when sf_open returned no handle
OpenFailExitCode == 1

\* main, lines 126-137
SfOpen ==
    /\ pc = "sf_open"
    /\ \E opened \in BOOLEAN :
        IF opened
        THEN /\ file' = [file EXCEPT !.state = "open",
                                     !.frames = FrameCount(Size(recordedSamples))]
             /\ log' = Append(log, <<"sf_open", "ok">>)
             /\ pc' = "sf_write_float"
             /\ UNCHANGED exitCode
        ELSE /\ file' = [file EXCEPT !.frames = FrameCount(Size(recordedSamples))]
             /\ log' = log \o << <<"sf_open", "fail">>,
                                 <<"stderr", "Error opening output file">> >>
             /\ exitCode' = OpenFailExitCode
             /\ pc' = "exit"
    /\ UNCHANGED <<err, stage, totalFrames, dataVars, paState, stream, cb, hist>>

\* Variant of the write step: a short write returns 1 at once, the file left open.
SfWriteReturnsOnShort ==
    /\ pc = "sf_write_float"
    /\ \E n \in 0..Size(recordedSamples) :
        /\ file' = [file EXCEPT !.requested = recordedSamples,
                                !.frames_written = n]
        /\ IF ShortWrite(n, Size(recordedSamples))
           THEN /\ log' = log \o << <<"sf_write_float", "called">>,
                                    <<"stderr", "Error writing samples">> >>
                /\ exitCode' = 1
                /\ pc' = "exit"
           ELSE /\ log' = log \o << <<"sf_write_float", "called">>,
                                    <<"stdout", "Successfully wrote">> >>
                /\ pc' = "sf_close"
                /\ UNCHANGED exitCode
    /\ UNCHANGED <<err, stage, totalFrames, dataVars, paState, stream, cb, hist>>

\* main, lines 140-148: one bulk write of the whole vector; sf_write_float
\* returns the number of items it wrote, 0..size.
SfWrite ==
    /\ pc = "sf_write_float"
    /\ \E n \in 0..Size(recordedSamples) :
        /\ file' = [file EXCEPT !.requested = recordedSamples,
                                !.frames_written = n]
        /\ log' = log \o << <<"sf_write_float", "called">>,
                            IF ShortWrite(n, Size(recordedSamples))
                            THEN <<"stderr", "Error writing samples">>
                            ELSE <<"stdout", "Successfully wrote">> >>
    /\ pc' = "sf_close"
    /\ UNCHANGED <<err, stage, exitCode, totalFrames, dataVars, paState, stream,
                   cb, hist>>

\* main, lines 151-157
SfClose ==
    /\ pc = "sf_close"
    /\ \E rc \in {0, 1} :
        /\ file' = [file EXCEPT !.state = "closed"]
        /\ log' = log \o << <<"sf_close", IF rc = 0 THEN "ok" ELSE "fail">>,
                            IF rc # 0
                            THEN <<"stderr", "Error closing output file">>
                            ELSE <<"stdout", "Saved recording">> >>
        /\ exitCode' = CloseExitCode(rc)
    /\ pc' = "exit"
    /\ UNCHANGED <<err, stage, totalFrames, dataVars, paState, stream, cb, hist>>

----
\* The transport's thread: one invocation of recordCallback, step by step.

\* The transport invokes the callback while the stream is active and no
\* invocation has returned paComplete (lines 24-31).
CbInvoke ==
    /\ stream = "active"
    /\ cb.pc = "idle"
    /\ exitCode = "running"
    /\ \E framesPerBuffer \in 1..MaxFramesPerBuffer :
       \E inputBuffer \in InputBuffers(framesPerBuffer) :
            cb' = [pc |-> "check", inputBuffer |-> inputBuffer,
                   framesPerBuffer |-> framesPerBuffer,
                   framesToRecord |-> framesPerBuffer, i |-> 0]
    /\ hist' = [hist EXCEPT !.invocations = @ + 1,
                            !.result = "none",
                            !.appended = 0,
                            !.entryLen = Size(recordedSamples),
                            !.entryRecording = recording,
                            !.entrySamples = recordedSamples,
                            !.callsAfterStop = IF hist.stopWritten THEN @ + 1 ELSE @,
                            !.minFrames = IF @ = 0 THEN cb'.framesPerBuffer
                                          ELSE Min(@, cb'.framesPerBuffer)]
    /\ UNCHANGED <<mainVars, totalFrames, dataVars, paState, stream, file, log>>

\* lines 36-39
CbBoundCheck ==
    /\ cb.pc = "check"
    /\ exitCode = "running"
    /\ LET bc == BoundCheck(Size(recordedSamples), cb.framesPerBuffer,
                            maxSamples, recording)
       IN /\ cb' = [cb EXCEPT !.pc = "loop", !.framesToRecord = bc.framesToRecord]
          /\ recording' = bc.recording
          /\ hist' = [hist EXCEPT !.cbCleared =
                         @ \/ (bc.framesToRecord # cb.framesPerBuffer)
                           \/ (recording /\ ~bc.recording)]
    /\ UNCHANGED <<mainVars, totalFrames, recordedSamples, capacity, maxSamples,
                   paState, stream, file, log>>

\* lines 44-46 and 48-51: one iteration of the loop
CbPushBack ==
    /\ cb.pc = "loop"
    /\ exitCode = "running"
    /\ LoopContinues(cb.inputBuffer, cb.i, cb.framesToRecord)
    /\ recordedSamples' = PushBack(recordedSamples, NextSample(cb.inputBuffer, cb.i + 1))
    /\ capacity' = GrownCapacity(Size(recordedSamples), capacity)
    /\ cb' = [cb EXCEPT !.i = @ + 1]
    /\ hist' = [hist EXCEPT !.appended = @ + 1,
                            !.samplesAfterStop = IF hist.stopWritten THEN @ + 1 ELSE @]
    /\ UNCHANGED <<mainVars, totalFrames, recording, maxSamples, paState, stream,
                   file, log>>

\* the loop ends; line 55 reads the flag and returns.  After paComplete the
\* transport does not invoke the callback again.
CbReturn ==
    /\ cb.pc = "loop"
    /\ exitCode = "running"
    /\ ~LoopContinues(cb.inputBuffer, cb.i, cb.framesToRecord)
    /\ cb' = [cb EXCEPT !.pc = "idle"]
    /\ hist' = [hist EXCEPT !.result = CallbackResult(recording),
                            !.exitRecording = recording]
    /\ stream' = IF CallbackResult(recording) = paComplete /\ stream = "active"
                 THEN "complete" ELSE stream
    /\ UNCHANGED <<mainVars, totalFrames, dataVars, paState, file, log>>

Main == \/ Setup \/ PaInitialize \/ HandlePaError \/ GetDefaultInputDevice
        \/ OpenStream \/ StartStream \/ StopWrite \/ StopStream \/ CloseStream
        \/ Terminate \/ SfOpen \/ SfWrite \/ SfClose

Callback == CbInvoke \/ CbBoundCheck \/ CbPushBack \/ CbReturn

Next == Main \/ Callback

Spec == Init /\ [][Next]_vars

\* Both threads keep running: main is straight-line code between blocking
\* calls that return, and the transport keeps invoking the callback while the
\* stream is active.
InitFair == InitBody(1..MaxFairFrames)

SpecFair == InitFair /\ [][Next]_vars /\ WF_vars(Main) /\ WF_vars(Callback)

----
\* The program with its own constants and no external stop: main up to the
\* start of the stream, then whole invocations of recordCallback with
\* FRAMES_PER_BUFFER frames each.

InitScenario == InitBody({NUM_SECONDS * SAMPLE_RATE})

ScenarioInput ==
    [null |-> FALSE,
     samples |-> [k \in 1..FRAMES_PER_BUFFER |-> MaxSample]]

\* lines 24-55 in one step
CbWhole ==
    /\ stream = "active"
    /\ cb.pc = "idle"
    /\ exitCode = "running"
    /\ LET r == RecordCallback(recordedSamples, recording, maxSamples,
                               ScenarioInput, FRAMES_PER_BUFFER)
       IN /\ recordedSamples' = r.recordedSamples
          /\ recording' = r.recording
          /\ cb' = [pc |-> "idle", inputBuffer |-> ScenarioInput,
                    framesPerBuffer |-> FRAMES_PER_BUFFER,
                    framesToRecord |-> r.framesToRecord, i |-> r.appended]
          /\ hist' = [hist EXCEPT !.invocations = @ + 1,
                                  !.result = r.result,
                                  !.appended = r.appended,
                                  !.entryLen = Size(recordedSamples),
                                  !.entryRecording = recording,
                                  !.entrySamples = recordedSamples,
                                  !.exitRecording = r.recording,
                                  !.cbCleared = @ \/ (recording /\ ~r.recording),
                                  !.minFrames = FRAMES_PER_BUFFER]
          /\ stream' = IF r.result = paComplete THEN "complete" ELSE stream
    /\ UNCHANGED <<mainVars, totalFrames, capacity, maxSamples, paState, file, log>>

NextScenario == \/ Setup \/ PaInitialize \/ HandlePaError \/ GetDefaultInputDevice
                \/ OpenStream \/ StartStream \/ CbWhole

SpecScenario == InitScenario /\ [][NextScenario]_vars
----
\* The program with a limit of 0 samples (a capture duration of 0, which
\* leaves maxSamples at the default of line 20).  The vector then grows
\* without bound; here the transport stops invoking the callback at
\* MaxGrowth samples.

InitNoLimit == InitBody({0})

CbInvokeCapped ==
    /\ Size(recordedSamples) < MaxGrowth
    /\ CbInvoke

NextNoLimit == \/ Main
               \/ CbInvokeCapped \/ CbBoundCheck \/ CbPushBack \/ CbReturn

SpecNoLimit == InitNoLimit /\ [][NextNoLimit]_vars

----
\* Properties.

Returned == cb.pc = "idle" /\ hist.result # "none"

\* The step-by-step callback and the uninterrupted one agree whenever the
\* flag was not written from outside during the invocation.
StepsAgreeWithWhole ==
    (Returned /\ hist.exitRecording = (hist.entryRecording /\ ~hist.cbCleared)
              /\ hist.invocations = 1)
    => LET r == RecordCallback(hist.entrySamples, hist.entryRecording, maxSamples,
                               cb.inputBuffer, cb.framesPerBuffer)
       IN /\ recordedSamples = r.recordedSamples
          /\ hist.result = r.result

\* C1: in every reachable state the length of recordedSamples is at most
\* maxSamples, and from the end of main's setup on maxSamples is
\* totalFrames * NUM_CHANNELS (duration * rate * channels).
C1_LengthBounded ==
    /\ Size(recordedSamples) <= maxSamples
    /\ pc # "setup" => maxSamples = totalFrames * NUM_CHANNELS

\* C1 witness: the buffer is full after a truncated invocation that followed
\* the stop write.
C1_Witness ==
    /\ Size(recordedSamples) = maxSamples
    /\ hist.stopWritten
    /\ hist.invocations >= 2
    /\ Returned
    /\ hist.appended >= 1
    /\ hist.appended < cb.framesPerBuffer

\* C2: an invocation entered with the flag already false and the length below
\* maxSamples returns paComplete and has appended exactly
\* min(framesPerBuffer, maxSamples - length), hence at most framesPerBuffer.
C2_StoppedInvocationCompletes ==
    (Returned /\ ~hist.entryRecording /\ hist.entryLen < maxSamples)
    => /\ hist.result = paComplete
       /\ hist.appended = Min(cb.framesPerBuffer, maxSamples - hist.entryLen)
       /\ hist.appended <= cb.framesPerBuffer
       /\ Size(recordedSamples) = hist.entryLen + hist.appended

\* C2 witness: such an invocation has returned, with a whole buffer appended
\* and room left.
C2_Witness ==
    /\ Returned
    /\ ~hist.entryRecording
    /\ hist.entryLen < maxSamples
    /\ hist.appended = cb.framesPerBuffer
    /\ Size(recordedSamples) < maxSamples
    /\ hist.result = paComplete

\* C3: at most one invocation begins after the stop write, and the samples
\* appended after the stop write number at most the framesPerBuffer of the
\* invocation that appended them.
C3_OneBufferAfterStop ==
    /\ hist.callsAfterStop <= 1
    /\ hist.samplesAfterStop <= cb.framesPerBuffer
    /\ (hist.callsAfterStop = 1 /\ Returned) => hist.result = paComplete

\* C3 witness: the stop write landed in the middle of an invocation's loop,
\* which then appended its remaining samples and returned.
C3_Witness ==
    /\ hist.stopWritten
    /\ hist.callsAfterStop = 0
    /\ hist.samplesAfterStop >= 1
    /\ hist.samplesAfterStop < hist.appended
    /\ Returned

\* C3 witness for the other interleaving: a whole invocation after the write.
C3_WitnessNextInvocation ==
    /\ hist.callsAfterStop = 1
    /\ hist.samplesAfterStop = cb.framesPerBuffer
    /\ Returned

\* C4: recordCallback returns paContinue exactly when, after its appends, the
\* flag it reads is true and the length is still below maxSamples; otherwise,
\* also when the appends made the length exactly maxSamples, paComplete.
C4_ContinueIffBelowBound ==
    Returned =>
        (hist.result = paContinue
            <=> (hist.exitRecording /\ Size(recordedSamples) < maxSamples))

\* What the code does instead: the value returned depends on the flag alone.
C4_ContinueIffFlag ==
    Returned => (hist.result = paContinue <=> hist.exitRecording)

\* The case C4 gets wrong: an exact fit returns paContinue with a full buffer.
C4_ExactFit ==
    /\ Returned
    /\ hist.appended = cb.framesPerBuffer
    /\ Size(recordedSamples) = maxSamples
    /\ hist.result = paContinue

\* C5: an invocation entered with the length equal to maxSamples, whatever
\* framesPerBuffer and the flag are, leaves the buffer as it was and returns
\* paComplete.
C5_IdempotentAtBound ==
    (hist.invocations >= 1 /\ hist.entryLen = maxSamples)
    => /\ recordedSamples = hist.entrySamples
       /\ hist.appended = 0
       /\ Returned => hist.result = paComplete

\* C5 witness: such an invocation, entered with the flag still true, returned.
C5_Witness ==
    /\ Returned
    /\ hist.entryLen = maxSamples
    /\ hist.entryRecording
    /\ cb.framesPerBuffer >= 2
    /\ hist.result = paComplete

\* C5 witness with the flag already false on entry.
C5_WitnessFlagFalse ==
    /\ Returned
    /\ hist.entryLen = maxSamples
    /\ ~hist.entryRecording
    /\ hist.result = paComplete

Zeros(n) == Fill(0, n)

\* C6: with a NULL input the invocation appends exactly
\* min(framesPerBuffer, maxSamples - length) samples, all zero, and its bound
\* check (framesToRecord, the flag) and return value are those a present
\* input of the same size gives from the same state.
C6_NullInputSilence ==
    (Returned /\ cb.inputBuffer.null)
    => /\ hist.appended = Min(cb.framesPerBuffer, maxSamples - hist.entryLen)
       /\ recordedSamples = Concat(hist.entrySamples, Zeros(hist.appended))
       /\ \A b \in InputBuffers(cb.framesPerBuffer) :
            LET rn == RecordCallback(hist.entrySamples, hist.entryRecording,
                                     maxSamples, NullBuffer, cb.framesPerBuffer)
                rb == RecordCallback(hist.entrySamples, hist.entryRecording,
                                     maxSamples, b, cb.framesPerBuffer)
            IN /\ rn.framesToRecord = cb.framesToRecord
               /\ rb.framesToRecord = rn.framesToRecord
               /\ rb.appended = rn.appended
               /\ rb.recording = rn.recording
               /\ rb.result = rn.result

\* C6 witness: a NULL invocation, truncated by the bound, after an invocation
\* that recorded a non-zero sample.
C6_Witness ==
    /\ Returned
    /\ cb.inputBuffer.null
    /\ hist.appended >= 1
    /\ hist.appended < cb.framesPerBuffer
    /\ \E k \in 1..Len(hist.entrySamples) : hist.entrySamples[k].value # 0

\* C7: with maxSamples = 220500 and 512 frames per invocation and no external
\* stop, invocations 1..430 each append 512 samples and return paContinue, the
\* 431st appends 340, leaving exactly 220500 samples, and returns paComplete.
C7_Scenario ==
    /\ pc # "setup" => maxSamples = 220500
    /\ hist.invocations <= 431
    /\ (hist.invocations >= 1 /\ hist.invocations < 431)
         => /\ hist.appended = 512
            /\ hist.result = paContinue
            /\ Size(recordedSamples) = 512 * hist.invocations
    /\ hist.invocations = 431
         => /\ hist.appended = 340
            /\ Size(recordedSamples) = 220500
            /\ hist.result = paComplete

\* C7 witness: the 431st invocation has returned.
C7_Witness ==
    /\ hist.invocations = 431
    /\ hist.entryLen = 430 * 512
    /\ Size(recordedSamples) = NUM_SECONDS * SAMPLE_RATE * NUM_CHANNELS
    /\ stream = "complete"

Logged(entry) == \E k \in 1..Len(log) : log[k] = entry

ExportBegun == \E k \in 1..Len(log) : log[k][1] = "sf_open"

\* C8: from the moment main is about to read recordedSamples for the export,
\* no invocation of recordCallback is running or can start, and
\* Pa_StopStream and Pa_CloseStream have both returned paNoError.
C8_ExportAfterTeardown ==
    (pc \in {"sf_open", "sf_write_float", "sf_close"} \/ ExportBegun)
    => /\ cb.pc = "idle"
       /\ ~ENABLED Callback
       /\ stream = "closed"
       /\ Logged(<<"Pa_StopStream", paNoError>>)
       /\ Logged(<<"Pa_CloseStream", paNoError>>)

\* C8 witness: the bulk write of a non-empty buffer has been made.
C8_Witness ==
    /\ pc = "sf_close"
    /\ Size(recordedSamples) >= 2
    /\ file.requested = recordedSamples
    /\ hist.invocations >= 2

ShortWriteReported == Logged(<<"stderr", "Error writing samples">>)

\* C9: the process exits with 1 when there is no default input device, when
\* sf_open fails or when sf_close fails; with 0 when open, write and close
\* all succeed; and with 0 when only the write was short, which is reported.
C9_ExitCodes ==
    pc = "exit" =>
        /\ Logged(<<"Pa_GetDefaultInputDevice", "paNoDevice">>) => exitCode = 1
        /\ Logged(<<"sf_open", "fail">>) => exitCode = 1
        /\ Logged(<<"sf_close", "fail">>) => exitCode = 1
        /\ Logged(<<"sf_close", "ok">>) => exitCode = 0
        /\ (Logged(<<"sf_close", "ok">>)
              /\ file.frames_written # Size(file.requested))
             => (ShortWriteReported /\ exitCode = 0)
        /\ exitCode = 0 => Logged(<<"sf_open", "ok">>)

\* C9 witness: a short write, then a successful close and exit.
C9_Witness ==
    /\ pc = "exit"
    /\ file.frames_written < Size(file.requested)
    /\ ShortWriteReported
    /\ Logged(<<"sf_close", "ok">>)
    /\ exitCode = 0

\* C9 witnesses of the three failing exits.
C9_WitnessFailures ==
    /\ pc = "exit"
    /\ exitCode = 1
    /\ Logged(<<"sf_close", "fail">>)
    /\ ~ShortWriteReported

\* C10: once a transport call has returned an error, either handlePaError is
\* what main runs next, or it has run: the error was reported, Pa_Terminate
\* was called, the process exited with 1, and nothing else was called: no
\* later transport step, no export.
C10_TransportFailureTerminal ==
    \A k \in 1..Len(log) :
        log[k][2] = paError =>
            \/ /\ k = Len(log)
               /\ pc = "handlePaError"
               /\ err = paError
               /\ exitCode = "running"
            \/ /\ pc = "exit"
               /\ exitCode = 1
               /\ Len(log) = k + 2
               /\ log[k + 1] = <<"stderr", stage>>
               /\ log[k + 2] = <<"Pa_Terminate", paNoError>>
               /\ paState # "init"
               /\ stream \in {"null", "closed"}
               /\ file = InitFile

\* C10 witness: Pa_StopStream failed after samples were captured, and the
\* process has exited.
C10_Witness ==
    /\ Logged(<<"Pa_StopStream", paError>>)
    /\ Size(recordedSamples) >= 1
    /\ pc = "exit"
    /\ exitCode = 1
\* C11: the export of an empty buffer, with sf_open and sf_close succeeding,
\* declares 0 frames, requests 0 samples, has 0 written, is reported as a
\* successful write and ends with exit status 0.
C11_EmptyExport ==
    (pc = "exit" /\ Logged(<<"sf_close", "ok">>) /\ Size(recordedSamples) = 0)
    => /\ file.frames = 0
       /\ file.requested = <<>>
       /\ file.frames_written = 0
       /\ ~ShortWriteReported
       /\ Logged(<<"stdout", "Successfully wrote">>)
       /\ exitCode = 0

\* C11 witness: the stream was stopped before any invocation, the empty
\* buffer was exported and the process has exited.
C11_Witness ==
    /\ pc = "exit"
    /\ hist.invocations = 0
    /\ hist.stopWritten
    /\ Size(recordedSamples) = 0
    /\ Logged(<<"sf_write_float", "called">>)
    /\ Logged(<<"sf_close", "ok">>)

\* C12: an invocation that would overrun the bound (length + framesPerBuffer
\* > maxSamples, maxSamples > 0) appends exactly maxSamples - length, clears
\* the flag and returns paComplete; and whenever the callback's own bound
\* check has cleared the flag, the length after that invocation is maxSamples.
C12_OverrunTruncates ==
    /\ (Returned /\ maxSamples > 0
          /\ hist.entryLen + cb.framesPerBuffer > maxSamples)
         => /\ hist.appended = maxSamples - hist.entryLen
            /\ cb.framesToRecord = maxSamples - hist.entryLen
            /\ ~hist.exitRecording
            /\ ~recording
            /\ hist.result = paComplete
            /\ hist.cbCleared
    /\ (hist.cbCleared /\ cb.pc = "idle")
         => /\ Size(recordedSamples) = maxSamples
            /\ ~recording
            /\ hist.result = paComplete

\* C12 witness: the callback, not the stop write, cleared the flag on a
\* partial buffer.
C12_Witness ==
    /\ Returned
    /\ hist.cbCleared
    /\ ~hist.stopWritten
    /\ hist.entryRecording
    /\ hist.appended >= 1
    /\ hist.appended < cb.framesPerBuffer
    /\ Size(recordedSamples) = maxSamples
IsPrefix(a, b) == Len(a) <= Len(b) /\ SubSeq(b, 1, Len(a)) = a

\* C13: the buffer is append-only: every step leaves the old contents as a
\* prefix of the new ones; with a present input, what an invocation has
\* appended so far is the input's first samples in input order, framesToRecord
\* of them once it has returned; and no step of the callback changes
\* maxSamples.
C13_AppendOnly ==
    /\ [](hist.invocations >= 1 =>
            /\ IsPrefix(Elements(hist.entrySamples), Elements(recordedSamples))
            /\ Size(recordedSamples) = hist.entryLen + hist.appended
            /\ ~cb.inputBuffer.null =>
                 Elements(recordedSamples) =
                     Elements(hist.entrySamples)
                        \o SubSeq(cb.inputBuffer.samples, 1, hist.appended)
            /\ Returned => hist.appended = cb.framesToRecord)
    /\ [][/\ IsPrefix(Elements(recordedSamples), Elements(recordedSamples'))
          /\ cb' # cb => maxSamples' = maxSamples]_vars

\* C13 witness: a second invocation copied a sample behind a different one
\* recorded by the first.
C13_Witness ==
    /\ Returned
    /\ hist.invocations >= 2
    /\ hist.entryLen >= 1
    /\ ~cb.inputBuffer.null
    /\ hist.appended >= 1
    /\ Elements(recordedSamples)[hist.entryLen + 1] # Elements(recordedSamples)[hist.entryLen]
\* C14: the flag starts true and only falls: a step that changes it is the
\* callback's bound check or main's stop write, and makes it false; main is
\* at its stop write at most once, before having written, and after
\* Pa_StartStream returned paNoError.
C14_FlagMonotone ==
    /\ []((hist.invocations = 0 /\ ~hist.stopWritten) => recording)
    /\ [](pc = "sleep" => (~hist.stopWritten
                            /\ Logged(<<"Pa_StartStream", paNoError>>)))
    /\ [][/\ ~recording => ~recording'
          /\ recording' # recording =>
                \/ cb.pc = "check" /\ cb'.pc = "loop"
                \/ pc = "sleep" /\ pc' = "Pa_StopStream"
          /\ hist'.stopWritten # hist.stopWritten =>
                (pc = "sleep" /\ ~recording' /\ hist'.stopWritten)]_vars

\* C14 witness: both writers have written, the stop write first.
C14_Witness ==
    /\ hist.stopWritten
    /\ hist.cbCleared
    /\ ~hist.entryRecording
    /\ ~recording
    /\ Returned
\* C15: with every framesPerBuffer >= m >= 1 the callback has returned
\* paComplete by invocation floor(maxSamples / m) + 1 at the latest, stop
\* write or not; and once the stream has started, the run reaches the exit of
\* the process with no invocation running and none to come.
C15_CaptureTerminates ==
    /\ [](hist.invocations >= 1 =>
            /\ hist.minFrames >= 1
            /\ hist.invocations <= (maxSamples \div hist.minFrames) + 1
            /\ (Returned /\ hist.invocations = (maxSamples \div hist.minFrames) + 1)
                  => hist.result = paComplete)
    /\ Logged(<<"Pa_StartStream", paNoError>>)
         ~> (pc = "exit" /\ cb.pc = "idle" /\ stream # "active")

\* C15 witness: the callback reached the bound by itself, in the largest
\* number of invocations, before any stop write, and the process has exited.
C15_Witness ==
    /\ pc = "exit"
    /\ hist.invocations = maxSamples + 1
    /\ hist.invocations >= 3
    /\ hist.callsAfterStop = 0
    /\ hist.result = paComplete
IsStreamStep(e) ==
    e[1] \in {"Pa_OpenStream", "Pa_StartStream", "Pa_StopStream", "Pa_CloseStream"}

StreamSteps == SelectSeq(log, IsStreamStep)

StreamOrder == <<"Pa_OpenStream", "Pa_StartStream", "Pa_StopStream", "Pa_CloseStream">>

\* C16: the stream calls made so far are open, start, stop, close in that
\* order, each at most once; on the path that reaches the export all four
\* were made and succeeded; and a process that exits after the stream was
\* opened exits with the stream closed and the library terminated.
C16_TransportLifecycle ==
    /\ Len(StreamSteps) <= 4
    /\ \A k \in 1..Len(StreamSteps) :
          /\ StreamSteps[k][1] = StreamOrder[k]
          /\ k < Len(StreamSteps) => StreamSteps[k][2] = paNoError
    /\ (pc = "sf_open" \/ ExportBegun)
         => /\ Len(StreamSteps) = 4
            /\ StreamSteps[4][2] = paNoError
    /\ (pc = "exit" /\ Logged(<<"Pa_OpenStream", paNoError>>))
         => /\ stream = "closed"
            /\ paState = "terminated"
            /\ Logged(<<"Pa_Terminate", paNoError>>)

\* C16 witness: Pa_CloseStream failed after samples were captured, and the
\* process has exited.
C16_Witness ==
    /\ pc = "exit"
    /\ Logged(<<"Pa_CloseStream", paError>>)
    /\ Size(recordedSamples) >= 1
    /\ stream = "closed"

\* C16 witness on the path where Pa_StartStream fails.
C16_WitnessStartFails ==
    /\ pc = "exit"
    /\ Logged(<<"Pa_StartStream", paError>>)
    /\ stream = "closed"
IsCall(name, e) == e[1] = name

Calls(name) == Cardinality({k \in 1..Len(log) : IsCall(name, log[k])})

\* C17: a file that was opened is closed exactly once before the process
\* exits, also after a short write, and never more than once; when sf_open
\* fails there is no write and no close.
C17_FileLifecycle ==
    /\ Calls("sf_open") <= 1
    /\ Calls("sf_write_float") <= 1
    /\ Calls("sf_close") <= 1
    /\ (pc = "exit" /\ Logged(<<"sf_open", "ok">>))
         => /\ Calls("sf_close") = 1
            /\ Calls("sf_write_float") = 1
            /\ file.state = "closed"
    /\ Logged(<<"sf_open", "fail">>)
         => /\ Calls("sf_write_float") = 0
            /\ Calls("sf_close") = 0
            /\ file.state = "none"
            /\ pc = "exit"

\* C17 witness: the write was short, the close was still made.
C17_Witness ==
    /\ pc = "exit"
    /\ ShortWriteReported
    /\ file.frames_written = 0
    /\ Size(file.requested) >= 2
    /\ Calls("sf_close") = 1
    /\ file.state = "closed"

\* C17 witness of the failed open.
C17_WitnessOpenFails ==
    /\ pc = "exit"
    /\ Logged(<<"sf_open", "fail">>)
    /\ Size(recordedSamples) >= 1
\* C18: the one bulk write requests exactly the vector the last invocation
\* left, N samples in capture order; the frame count declared at sf_open is
\* N / NUM_CHANNELS; and the short-write error is printed exactly when the
\* count written differs from N.
C18_WholeBufferOneWrite ==
    /\ (pc = "sf_write_float" \/ ExportBegun)
         => file.frames = Size(recordedSamples) \div NUM_CHANNELS
    /\ Logged(<<"sf_write_float", "called">>)
         => /\ Calls("sf_write_float") = 1
            /\ file.requested = recordedSamples
            /\ Size(file.requested) = hist.entryLen + hist.appended
            /\ IsPrefix(Elements(hist.entrySamples), Elements(file.requested))
            /\ ~cb.inputBuffer.null =>
                 Elements(file.requested) =
                     Elements(hist.entrySamples)
                        \o SubSeq(cb.inputBuffer.samples, 1, hist.appended)
            /\ file.frames_written \in 0..Size(file.requested)
            /\ ShortWriteReported <=> file.frames_written # Size(file.requested)
            /\ Logged(<<"stdout", "Successfully wrote">>)
                 <=> file.frames_written = Size(file.requested)

\* C18 witness: a buffer of different samples was submitted and part of it
\* written.
C18_Witness ==
    /\ Logged(<<"sf_write_float", "called">>)
    /\ Len(file.requested) >= 2
    /\ file.frames_written >= 1
    /\ file.frames_written < Size(file.requested)
    /\ ShortWriteReported

\* C18 witness of the complete write.
C18_WitnessComplete ==
    /\ Logged(<<"sf_write_float", "called">>)
    /\ Size(file.requested) >= 2
    /\ file.frames_written = Size(file.requested)
    /\ ~ShortWriteReported
\* C19: from before Pa_OpenStream on, the capacity of the vector is at least
\* maxSamples; every append finds the length strictly below the capacity and
\* leaves the capacity as it was (no reallocation).
C19_NoReallocation ==
    /\ [](pc # "setup" => capacity >= maxSamples)
    /\ [](Logged(<<"Pa_OpenStream", paNoError>>) \/ stream # "null"
            => capacity >= maxSamples /\ maxSamples >= 1)
    /\ [][/\ Size(recordedSamples') # Size(recordedSamples) =>
                /\ Size(recordedSamples) < capacity
                /\ Size(recordedSamples') = Size(recordedSamples) + 1
          /\ pc # "setup" => capacity' = capacity]_vars

\* C19 witness: the vector was filled up to its reserved capacity.
C19_Witness ==
    /\ Size(recordedSamples) = capacity
    /\ capacity >= 2
    /\ hist.invocations >= 2
    /\ Returned
\* C20: with maxSamples = 0 the bound check never fires: every invocation
\* records all framesPerBuffer samples, the callback never clears the flag,
\* the flag is false only by the stop write, and an invocation returns
\* paContinue unless it read the flag after the stop write.
C20_NoLimitWhenZero ==
    /\ maxSamples = 0
    /\ ~hist.cbCleared
    /\ recording <=> ~hist.stopWritten
    /\ cb.pc \in {"loop", "idle"} => cb.framesToRecord = cb.framesPerBuffer
    /\ Returned
         => /\ hist.appended = cb.framesPerBuffer
            /\ Size(recordedSamples) = hist.entryLen + cb.framesPerBuffer
            /\ hist.result = paContinue <=> hist.exitRecording
            /\ hist.result = paComplete => hist.stopWritten

\* C20 witness: several invocations have pushed the length past maxSamples,
\* the last one still returning paContinue.
C20_Witness ==
    /\ Returned
    /\ hist.invocations >= 2
    /\ Size(recordedSamples) > maxSamples
    /\ Size(recordedSamples) >= 3
    /\ hist.result = paContinue
    /\ capacity > maxSamples

\* C20 witness: the stop write ended the capture.
C20_WitnessStopped ==
    /\ Returned
    /\ hist.stopWritten
    /\ hist.result = paComplete
    /\ Size(recordedSamples) >= 2
====
